---- MODULE Spec2Model ----
(***************************************************************************)
(* Conversion of an epsilon-NFA into an NFA without epsilon transitions,  *)
(* as implemented by src/services/nfaConverter.ts.                        *)
(*                                                                         *)
(* One call convertENFAToNFA(enfa) is modelled as a state machine:        *)
(*   "call"     the argument is bound, nothing has been computed          *)
(*   "closures" computeAllEpsilonClosures is running; each step is one    *)
(*              iteration of the work-list loop of                        *)
(*              computeStateEpsilonClosure, or its return                 *)
(*   "project"  the loop over states x alphabetWithoutEpsilon; each step  *)
(*              is one (q, a) pair                                        *)
(*   "return"   the final states are selected and the result assembled    *)
(*   "done"     the call has returned its result                          *)
(*   "threw"    the call ended with a TypeError (closures[s] undefined)   *)
(*                                                                         *)
(* Spec is one call on every input of the model; SpecTwice lets the       *)
(* caller convert the same automaton a second time; SpecDuplicate lets it *)
(* convert the automaton again with a transition listed once more.        *)
(*                                                                         *)
(* SpecEditor is the editor of src/unnamed/part_000 (component App): the  *)
(* automaton starts as INITIAL_ENFA and every step is one event handler.  *)
(* The automaton of every state of the editor is handed to                *)
(* convertENFAToNFA by useMemo.                                           *)
(***************************************************************************)
EXTENDS Naturals, Sequences, FiniteSets

VARIABLES
  enfa,            \* the argument of convertENFAToNFA
  pc,              \* position of the call
  closures,        \* the EpsilonClosureMap built so far (state -> sorted list)
  si,              \* index in enfa.states of the state being closed
  closure,         \* the Set `closure` of the running closure call, in insertion order
  stack,           \* the work list of the running closure call
  pushed,          \* every state pushed on the work list by the running closure call
  qi,              \* index in enfa.states of q in the projection loop
  ai,              \* index in alphabetWithoutEpsilon of a in the projection loop
  newTransitions,  \* the projected transitions emitted so far
  result,          \* <<>> while nothing was returned, else <<[nfa, closures]>>
  first,           \* <<>>, or what an earlier call on the same argument returned
  newTrans,        \* the editor's transition form (useState newTrans)
  edits            \* the number of editor events handled so far

vars ==
  <<enfa, pc, closures, si, closure, stack, pushed, qi, ai, newTransitions, result, first,
    newTrans, edits>>

----------------------------------------------------------------------------
(* Bounds of the model *)

\* longest transition list of an input automaton
MaxTrans == 3
\* most transitions added to the editor's initial automaton
MaxExtra == 1
\* longest input word tried against both automata
MaxWord == 3
\* most editor events in one session
MaxEdits == 5

----------------------------------------------------------------------------
(* Strings and arrays *)

\* The state names of the model, in the order of JavaScript's default sort
\* (UTF-16 code units).
NameOrder == <<"A", "B", "C">>

StateNames == {NameOrder[i] : i \in 1..Len(NameOrder)}

Rank(s) == CHOOSE i \in 1..Len(NameOrder) : NameOrder[i] = s

\* a < b for two strings
StrLess(a, b) == Rank(a) < Rank(b)

Range(seq) == {seq[i] : i \in 1..Len(seq)}

\* Array.prototype.includes / Set.prototype.has on an insertion-ordered list
Includes(seq, x) == \E i \in 1..Len(seq) : seq[i] = x

\* Set.prototype.add on an insertion-ordered list
SetAdd(seq, x) == IF Includes(seq, x) THEN seq ELSE Append(seq, x)

NoDup(seq) == \A i, j \in 1..Len(seq) : seq[i] = seq[j] => i = j

RECURSIVE InsertSorted(_, _)
InsertSorted(sorted, x) ==
  IF sorted = <<>> THEN <<x>>
  ELSE IF StrLess(x, Head(sorted)) THEN <<x>> \o sorted
       ELSE <<Head(sorted)>> \o InsertSorted(Tail(sorted), x)

\* SortStrings that leaves the list as it is.
SortStringsNone(seq) == seq

RECURSIVE SortStrings(_)
\* Array.prototype.sort() with the default comparison
SortStrings(seq) ==
  IF seq = <<>> THEN <<>>
  ELSE InsertSorted(SortStrings(SubSeq(seq, 1, Len(seq) - 1)), seq[Len(seq)])

----------------------------------------------------------------------------
(* The automaton model (src/unnamed/part_001) *)

Transition(f, t, s) == [from |-> f, to |-> t, symbol |-> s]

\* t.symbol === "" || t.symbol === "ε"
IsEpsilon(s) == s = "" \/ s = "ε"

\* AlphabetWithoutEpsilon that drops only the marker "ε": the empty string
\* stays in the alphabet.
AlphabetWithoutMarkerOnly(alphabet) == SelectSeq(alphabet, LAMBDA a : a # "ε")

\* enfa.alphabet.filter(a => a !== "" && a !== "ε")
AlphabetWithoutEpsilon(alphabet) == SelectSeq(alphabet, LAMBDA a : ~IsEpsilon(a))

\* useState<Transition>({ from: '', to: '', symbol: '' })
EmptyForm == Transition("", "", "")

\* The automaton the editor starts from.
INITIAL_ENFA ==
  [states |-> <<"A", "B", "C">>,
   alphabet |-> <<"0", "1", "ε">>,
   transitions |-> << Transition("A", "A", "0"), Transition("A", "B", "ε"),
                      Transition("B", "B", "1"), Transition("B", "C", "ε"),
                      Transition("C", "C", "0") >>,
   initialState |-> "A",
   finalStates |-> <<"C">>]

----------------------------------------------------------------------------
(* computeStateEpsilonClosure *)

\* EpsilonMoves that takes only the empty string for an epsilon label.
EpsilonMovesEmptyOnly(current, transitions) ==
  LET hits == SelectSeq(transitions, LAMBDA t : t.from = current /\ t.symbol = "")
  IN  [i \in 1..Len(hits) |-> hits[i].to]

\* transitions.filter(t => t.from === current && isEpsilon(t.symbol)).map(t => t.to)
EpsilonMoves(current, transitions) ==
  LET hits == SelectSeq(transitions,
                        LAMBDA t : t.from = current /\ IsEpsilon(t.symbol))
  IN  [i \in 1..Len(hits) |-> hits[i].to]

\* VisitNext without the push: a newly found state is never expanded.
VisitNextNoPush(w, next) ==
  IF Includes(w.closure, next) THEN w
  ELSE [closure |-> Append(w.closure, next),
        stack |-> w.stack,
        pushed |-> w.pushed]

\* VisitNext without the membership test: every epsilon move is pushed.
VisitNextNoCheck(w, next) ==
  [closure |-> SetAdd(w.closure, next),
   stack |-> Append(w.stack, next),
   pushed |-> Append(w.pushed, next)]

\* One pass of `for (const next of epsilonMoves)` on the record
\* w = [closure, stack, pushed]: a state not yet in the closure is added
\* to it and pushed on the work list.
VisitNext(w, next) ==
  IF Includes(w.closure, next) THEN w
  ELSE [closure |-> Append(w.closure, next),
        stack |-> Append(w.stack, next),
        pushed |-> Append(w.pushed, next)]

RECURSIVE VisitAll(_, _)
VisitAll(w, moves) ==
  IF moves = <<>> THEN w ELSE VisitAll(VisitNext(w, Head(moves)), Tail(moves))

\* const closure = new Set([state]); const stack = [state]
BeginClosure(state) ==
  /\ closure' = <<state>>
  /\ stack' = <<state>>
  /\ pushed' = <<state>>

\* Where the call continues once computeAllEpsilonClosures has returned:
\* the projection loop runs no iteration when there is no state or no
\* non-epsilon symbol.
AfterClosures ==
  IF Len(enfa.states) = 0 \/ Len(AlphabetWithoutEpsilon(enfa.alphabet)) = 0
  THEN "return" ELSE "project"

\* convertENFAToNFA is entered: computeAllEpsilonClosures starts with an
\* empty map and the first state of enfa.states.
Call ==
  /\ pc = "call"
  /\ closures' = <<>>
  /\ si' = 1
  /\ IF Len(enfa.states) = 0
     THEN /\ pc' = AfterClosures
          /\ UNCHANGED <<closure, stack, pushed>>
     ELSE /\ pc' = "closures"
          /\ BeginClosure(enfa.states[1])
  /\ UNCHANGED <<enfa, qi, ai, newTransitions, result, first, newTrans, edits>>

\* One iteration of `while (stack.length > 0)`.
ClosureStep ==
  /\ pc = "closures"
  /\ Len(stack) > 0
  /\ LET current == stack[Len(stack)]
         popped == SubSeq(stack, 1, Len(stack) - 1)
         w == VisitAll([closure |-> closure, stack |-> popped, pushed |-> pushed],
                       EpsilonMoves(current, enfa.transitions))
     IN  /\ closure' = w.closure
         /\ stack' = w.stack
         /\ pushed' = w.pushed
  /\ UNCHANGED <<enfa, pc, closures, si, qi, ai, newTransitions, result, first, newTrans, edits>>

\* MapSet on a fresh map: the keys set before are lost.
MapSetFresh(map, k, v) == [x \in {k} |-> v]

\* map with key k set to v (k may be a new key)
MapSet(map, k, v) == [x \in DOMAIN map \cup {k} |-> IF x = k THEN v ELSE map[x]]

\* ClosureReturn that leaves forEach after the first state: the projection
\* starts with the closures of the other states still missing.
ClosureReturnFirstOnly ==
  /\ pc = "closures"
  /\ Len(stack) = 0
  /\ closures' = MapSet(closures, enfa.states[si], SortStrings(closure))
  /\ si' = si + 1
  /\ pc' = AfterClosures
  /\ UNCHANGED <<enfa, closure, stack, pushed, qi, ai, newTransitions, result, first, newTrans, edits>>

\* The work list is empty: the closure is returned sorted and stored in the
\* map, and forEach goes on to the next state.
ClosureReturn ==
  /\ pc = "closures"
  /\ Len(stack) = 0
  /\ closures' = MapSet(closures, enfa.states[si], SortStrings(closure))
  /\ si' = si + 1
  /\ IF si < Len(enfa.states)
     THEN /\ pc' = "closures"
          /\ BeginClosure(enfa.states[si + 1])
     ELSE /\ pc' = AfterClosures
          /\ UNCHANGED <<closure, stack, pushed>>
  /\ UNCHANGED <<enfa, qi, ai, newTransitions, result, first, newTrans, edits>>

----------------------------------------------------------------------------
(* convertENFAToNFA: the projection loop *)

\* AddTargets with `find` in place of `filter`: only the first transition
\* from p on a is followed.
AddTargetsFirstOnly(set, hits) ==
  IF hits = <<>> THEN set ELSE SetAdd(set, Head(hits).to)

RECURSIVE AddTargets(_, _)
\* .forEach(t => reachedAfterSymbol.add(t.to))
AddTargets(set, hits) ==
  IF hits = <<>> THEN set ELSE AddTargets(SetAdd(set, Head(hits).to), Tail(hits))

RECURSIVE ReachedAfterSymbol(_, _, _, _)
\* for (const p of qClosure) { transitions.filter(from p, symbol a).forEach(add) }
ReachedAfterSymbol(set, qClosure, a, transitions) ==
  IF qClosure = <<>> THEN set
  ELSE ReachedAfterSymbol(
         AddTargets(set, SelectSeq(transitions,
                                   LAMBDA t : t.from = Head(qClosure) /\ t.symbol = a)),
         Tail(qClosure), a, transitions)

RECURSIVE AddAll(_, _)
\* closures[s].forEach(c => finalReached.add(c))
AddAll(set, items) ==
  IF items = <<>> THEN set ELSE AddAll(SetAdd(set, Head(items)), Tail(items))

\* FinalReached without the second closure: the states reached on the
\* symbol are the targets.
FinalReachedNoReclose(set, reached, map) == AddAll(set, reached)

RECURSIVE FinalReached(_, _, _)
\* reachedAfterSymbol.forEach(s => closures[s].forEach(...)), every s having
\* an entry in the map
FinalReached(set, reached, map) ==
  IF reached = <<>> THEN set
  ELSE FinalReached(AddAll(set, map[Head(reached)]), Tail(reached), map)

RECURSIVE PushNewNoFind(_, _, _, _)
\* PushNew without the `find`: every target is pushed.
PushNewNoFind(out, q, a, targets) ==
  IF targets = <<>> THEN out
  ELSE PushNewNoFind(Append(out, Transition(q, Head(targets), a)), q, a, Tail(targets))

RECURSIVE PushNew(_, _, _, _)
\* finalReached.forEach(target => { if (!newTransitions.find(...)) push })
PushNew(out, q, a, targets) ==
  IF targets = <<>> THEN out
  ELSE PushNew(
         IF \E i \in 1..Len(out) :
              out[i].from = q /\ out[i].to = Head(targets) /\ out[i].symbol = a
         THEN out
         ELSE Append(out, Transition(q, Head(targets), a)),
         q, a, Tail(targets))

\* One iteration of the body of `for (const a of alphabetWithoutEpsilon)`.
\* closures[s] is undefined for a reached state s that is no key of the
\* map, and undefined.forEach throws a TypeError out of the call.
ProjectStep ==
  /\ pc = "project"
  /\ LET alpha == AlphabetWithoutEpsilon(enfa.alphabet)
         q == enfa.states[qi]
         a == alpha[ai]
         reached == ReachedAfterSymbol(<<>>, closures[q], a, enfa.transitions)
     IN  IF \E i \in 1..Len(reached) : reached[i] \notin DOMAIN closures
         THEN /\ pc' = "threw"
              /\ UNCHANGED <<qi, ai, newTransitions>>
         ELSE /\ newTransitions' =
                   PushNew(newTransitions, q, a, FinalReached(<<>>, reached, closures))
              /\ IF ai < Len(alpha)
                 THEN /\ ai' = ai + 1
                      /\ UNCHANGED <<qi, pc>>
                 ELSE /\ ai' = 1
                      /\ qi' = qi + 1
                      /\ pc' = IF qi < Len(enfa.states) THEN "project" ELSE "return"
  /\ UNCHANGED <<enfa, closures, si, closure, stack, pushed, result, first, newTrans, edits>>

----------------------------------------------------------------------------
(* convertENFAToNFA: final states and result *)

\* NewFinalStates without the closures: only the original final states.
NewFinalStatesOriginalOnly(e, map) ==
  SelectSeq(e.states, LAMBDA q : Includes(e.finalStates, q))

\* NewFinalStates with `every` in place of `some`.
NewFinalStatesEvery(e, map) ==
  SelectSeq(e.states,
            LAMBDA q : \A i \in 1..Len(map[q]) : Includes(e.finalStates, map[q][i]))

\* enfa.states.filter(q => closures[q].some(s => enfa.finalStates.includes(s)))
NewFinalStates(e, map) ==
  SelectSeq(e.states,
            LAMBDA q : \E i \in 1..Len(map[q]) : Includes(e.finalStates, map[q][i]))

\* Result with the states listed in sorted order.
ResultSortedStates(e, map, transitions) ==
  [nfa |-> [states |-> SortStrings(e.states),
            alphabet |-> AlphabetWithoutEpsilon(e.alphabet),
            transitions |-> transitions,
            initialState |-> e.initialState,
            finalStates |-> NewFinalStates(e, map)],
   closures |-> map]

\* The returned object.
Result(e, map, transitions) ==
  [nfa |-> [states |-> e.states,
            alphabet |-> AlphabetWithoutEpsilon(e.alphabet),
            transitions |-> transitions,
            initialState |-> e.initialState,
            finalStates |-> NewFinalStates(e, map)],
   closures |-> map]

\* The result built in place: the argument object is given the new
\* alphabet, transitions and final states and returned as the NFA.
ReturnInPlace ==
  /\ pc = "return"
  /\ enfa' = Result(enfa, closures, newTransitions).nfa
  /\ result' = <<Result(enfa, closures, newTransitions)>>
  /\ pc' = "done"
  /\ UNCHANGED <<closures, si, closure, stack, pushed, qi, ai, newTransitions, first, newTrans, edits>>

Return ==
  /\ pc = "return"
  /\ result' = <<Result(enfa, closures, newTransitions)>>
  /\ pc' = "done"
  /\ UNCHANGED <<enfa, closures, si, closure, stack, pushed, qi, ai, newTransitions, first, newTrans, edits>>

----------------------------------------------------------------------------
(* The inputs of the model *)

\* Lists of declared states: a state name left out of the list is unknown
\* to the automaton, so that a transition, the initial state or a final
\* state naming it dangles.
StateLists == {<<"A", "B">>, <<"B", "A">>, <<"A">>}

EndpointPool == {"A", "B"}

SymbolPool == {"0", "ε"}

Alphabets == {<<"0", "ε">>, <<"ε">>, <<"", "0">>}

FinalLists == {<<"A">>, <<"A", "B">>}

TransitionPool == [from : EndpointPool, to : EndpointPool, symbol : SymbolPool]

TransitionLists == UNION {[1..n -> TransitionPool] : n \in 0..MaxTrans}

\* The editor's initial automaton after a few edits, or imported with a
\* state missing from the list or a symbol listed twice: another initial
\* state, another final state, up to MaxExtra transitions added.
ExtraPool == [from : StateNames, to : StateNames, symbol : {"0", "1", "ε", ""}]

ExtraLists == UNION {[1..n -> ExtraPool] : n \in 0..MaxExtra}

EditedAlphabets == {<<"0", "1", "ε">>, <<"0", "1", "0", "ε">>}

Edited ==
  {[INITIAL_ENFA EXCEPT !.states = s, !.alphabet = al, !.transitions = @ \o x,
                        !.initialState = i, !.finalStates = f] :
     s \in {<<"A", "B", "C">>, <<"B", "C">>}, al \in EditedAlphabets,
     x \in ExtraLists, i \in StateNames, f \in {<<"C">>, <<"A">>}}

Inputs ==
  [states : StateLists, alphabet : Alphabets, transitions : TransitionLists,
   initialState : EndpointPool, finalStates : FinalLists]
  \cup Edited

Init ==
  /\ enfa \in Inputs
  /\ pc = "call"
  /\ closures = <<>>
  /\ si = 1
  /\ closure = <<>>
  /\ stack = <<>>
  /\ pushed = <<>>
  /\ qi = 1
  /\ ai = 1
  /\ newTransitions = <<>>
  /\ result = <<>>
  /\ first = <<>>
  /\ newTrans = EmptyForm
  /\ edits = 0

Next == Call \/ ClosureStep \/ ClosureReturn \/ ProjectStep \/ Return

Spec == Init /\ [][Next]_vars

\* The caller converts the same automaton once more after the first call
\* has returned: the call starts again with fresh locals, and what the first
\* call returned is kept for comparison.
CallAgain ==
  /\ pc = "done"
  /\ first = <<>>
  /\ first' = result
  /\ pc' = "call"
  /\ result' = <<>>
  /\ closures' = <<>>
  /\ newTransitions' = <<>>
  /\ closure' = <<>>
  /\ stack' = <<>>
  /\ pushed' = <<>>
  /\ si' = 1
  /\ qi' = 1
  /\ ai' = 1
  /\ UNCHANGED <<enfa, newTrans, edits>>

NextTwice == Next \/ CallAgain

SpecTwice == Init /\ [][NextTwice]_vars

\* seq with x inserted after its first k elements
InsertAt(seq, k, x) == SubSeq(seq, 1, k) \o <<x>> \o SubSeq(seq, k + 1, Len(seq))

\* After the first call has returned, one of the transitions of the
\* automaton is listed once more (anywhere in the list, which stays within
\* MaxTrans) and the automaton is converted again; what the first call
\* returned is kept for comparison.
CallWithDuplicate ==
  /\ pc = "done"
  /\ first = <<>>
  /\ Len(enfa.transitions) < MaxTrans
  /\ \E i \in 1..Len(enfa.transitions) : \E k \in 0..Len(enfa.transitions) :
       enfa' = [enfa EXCEPT !.transitions = InsertAt(@, k, enfa.transitions[i])]
  /\ first' = result
  /\ pc' = "call"
  /\ result' = <<>>
  /\ closures' = <<>>
  /\ newTransitions' = <<>>
  /\ closure' = <<>>
  /\ stack' = <<>>
  /\ pushed' = <<>>
  /\ si' = 1
  /\ qi' = 1
  /\ ai' = 1
  /\ UNCHANGED <<newTrans, edits>>

NextDuplicate == Next \/ CallWithDuplicate

SpecDuplicate == Init /\ [][NextDuplicate]_vars

----------------------------------------------------------------------------
(* The editor (component App of src/unnamed/part_000) *)

\* The variables of a call of convertENFAToNFA, which no event handler of
\* the editor touches.
conversion ==
  <<pc, closures, si, closure, stack, pushed, qi, ai, newTransitions, result, first>>

\* The names that can be typed into the "New State" field ("" is the empty
\* field), and the symbols that can be typed into the "New Symbol" field.
TypedStateNames == StateNames \cup {""}

TypedSymbols == {"0", "1", "ε", ""}

\* array.filter(x => x !== v)
Without(seq, v) == SelectSeq(seq, LAMBDA x : x # v)

\* One more event is handled.
Handled ==
  /\ edits < MaxEdits
  /\ edits' = edits + 1
  /\ UNCHANGED conversion

\* The "Origin" select: the empty option or one of the states.
setNewTransFrom(v) ==
  /\ Handled
  /\ v \in {""} \cup Range(enfa.states)
  /\ newTrans' = [newTrans EXCEPT !.from = v]
  /\ UNCHANGED enfa

\* The "Sym" select: the empty option or one of the symbols of the alphabet.
setNewTransSymbol(v) ==
  /\ Handled
  /\ v \in {""} \cup Range(enfa.alphabet)
  /\ newTrans' = [newTrans EXCEPT !.symbol = v]
  /\ UNCHANGED enfa

\* The "Dest" select: the empty option or one of the states.
setNewTransTo(v) ==
  /\ Handled
  /\ v \in {""} \cup Range(enfa.states)
  /\ newTrans' = [newTrans EXCEPT !.to = v]
  /\ UNCHANGED enfa

\* if (newTrans.from && newTrans.to && newTrans.symbol !== undefined):
\* the form is appended to the transitions and reset.
addTransition ==
  /\ Handled
  /\ IF newTrans.from # "" /\ newTrans.to # ""
     THEN /\ enfa' = [enfa EXCEPT !.transitions = Append(@, newTrans)]
          /\ newTrans' = EmptyForm
     ELSE UNCHANGED <<enfa, newTrans>>

\* prev.transitions.filter((_, i) => i !== idx), idx counted from 0
removeTransition(idx) ==
  /\ Handled
  /\ idx \in 0..(Len(enfa.transitions) - 1)
  /\ enfa' = [enfa EXCEPT !.transitions =
                SubSeq(@, 1, idx) \o SubSeq(@, idx + 2, Len(@))]
  /\ UNCHANGED newTrans

\* if (newStateName && !enfa.states.includes(newStateName)) append it
addState(newStateName) ==
  /\ Handled
  /\ newStateName \in TypedStateNames
  /\ IF newStateName # "" /\ ~Includes(enfa.states, newStateName)
     THEN enfa' = [enfa EXCEPT !.states = Append(@, newStateName)]
     ELSE UNCHANGED enfa
  /\ UNCHANGED newTrans

\* The state leaves states and finalStates, its transitions are dropped,
\* and when it was the initial state the initial state becomes
\* prev.states[0] || '': the first state of the list as it was before.
removeState(state) ==
  /\ Handled
  /\ state \in Range(enfa.states)
  /\ enfa' = [enfa EXCEPT
       !.states = Without(@, state),
       !.finalStates = Without(@, state),
       !.initialState =
          IF @ = state
          THEN (IF Len(enfa.states) > 0 THEN enfa.states[1] ELSE "")
          ELSE @,
       !.transitions = SelectSeq(@, LAMBDA t : t.from # state /\ t.to # state)]
  /\ UNCHANGED newTrans

\* if (newSymbolName && !enfa.alphabet.includes(newSymbolName)) append it
addSymbol(newSymbolName) ==
  /\ Handled
  /\ newSymbolName \in TypedSymbols
  /\ IF newSymbolName # "" /\ ~Includes(enfa.alphabet, newSymbolName)
     THEN enfa' = [enfa EXCEPT !.alphabet = Append(@, newSymbolName)]
     ELSE UNCHANGED enfa
  /\ UNCHANGED newTrans

\* if (symbol === 'ε') return; else the symbol and its transitions go
removeSymbol(symbol) ==
  /\ Handled
  /\ symbol \in Range(enfa.alphabet)
  /\ IF symbol = "ε"
     THEN UNCHANGED enfa
     ELSE enfa' = [enfa EXCEPT
            !.alphabet = Without(@, symbol),
            !.transitions = SelectSeq(@, LAMBDA t : t.symbol # symbol)]
  /\ UNCHANGED newTrans

toggleFinalState(state) ==
  /\ Handled
  /\ state \in Range(enfa.states)
  /\ enfa' = [enfa EXCEPT !.finalStates =
                IF Includes(@, state) THEN Without(@, state) ELSE Append(@, state)]
  /\ UNCHANGED newTrans

\* The "Start State" select offers the states.
setInitialState(state) ==
  /\ Handled
  /\ state \in Range(enfa.states)
  /\ enfa' = [enfa EXCEPT !.initialState = state]
  /\ UNCHANGED newTrans

\* useState<Automaton>(INITIAL_ENFA), the form empty, nothing converted yet
InitEditor ==
  /\ enfa = INITIAL_ENFA
  /\ pc = "call"
  /\ closures = <<>>
  /\ si = 1
  /\ closure = <<>>
  /\ stack = <<>>
  /\ pushed = <<>>
  /\ qi = 1
  /\ ai = 1
  /\ newTransitions = <<>>
  /\ result = <<>>
  /\ first = <<>>
  /\ newTrans = EmptyForm
  /\ edits = 0

NextEditor ==
  \/ \E v \in TypedStateNames : setNewTransFrom(v)
  \/ \E v \in TypedSymbols : setNewTransSymbol(v)
  \/ \E v \in TypedStateNames : setNewTransTo(v)
  \/ addTransition
  \/ \E idx \in 0..(Len(enfa.transitions) - 1) : removeTransition(idx)
  \/ \E name \in TypedStateNames : addState(name)
  \/ \E state \in StateNames : removeState(state)
  \/ \E name \in TypedSymbols : addSymbol(name)
  \/ \E symbol \in TypedSymbols : removeSymbol(symbol)
  \/ \E state \in StateNames : toggleFinalState(state)
  \/ \E state \in StateNames : setInitialState(state)

SpecEditor == InitEditor /\ [][NextEditor]_vars

----------------------------------------------------------------------------
(* What the claims speak of *)

Done == pc = "done"

\* The returned NFA and closure map (of a call that has returned).
nfa == result[1].nfa

closureMap == result[1].closures

\* The invariants of a well-formed automaton.
WellFormed(e) ==
  /\ NoDup(e.states)
  /\ NoDup(e.alphabet)
  /\ e.initialState \in Range(e.states)
  /\ Range(e.finalStates) \subseteq Range(e.states)
  /\ \A i \in 1..Len(e.transitions) :
       /\ e.transitions[i].from \in Range(e.states)
       /\ e.transitions[i].to \in Range(e.states)
       /\ ~IsEpsilon(e.transitions[i].symbol)
            => e.transitions[i].symbol \in Range(e.alphabet)

\* There is an epsilon transition (r, s).
EpsilonEdge(transitions, r, s) ==
  \E i \in 1..Len(transitions) :
    /\ transitions[i].from = r
    /\ transitions[i].to = s
    /\ IsEpsilon(transitions[i].symbol)

\* S is closed under the epsilon transitions.
EpsilonClosed(S, transitions) ==
  \A r \in S : \A s \in StateNames : EpsilonEdge(transitions, r, s) => s \in S

\* The sets of states that are closed under the epsilon transitions
\* (written as a union of singletons, which TLC enumerates once).
EpsilonClosedSets(transitions) ==
  UNION {IF EpsilonClosed(D, transitions) THEN {D} ELSE {} : D \in SUBSET StateNames}

\* The least of the sets `closedSets` that contains S: what all of them
\* that contain S have in common.
LeastClosed(S, closedSets) ==
  LET Meet(sets) == {x \in StateNames : \A D \in sets : x \in D}
  IN  Meet({D \in closedSets : S \subseteq D})

\* The states entered from a state of S by one transition on symbol a.
Move(S, a, transitions) ==
  {transitions[i].to : i \in {j \in 1..Len(transitions) :
                                transitions[j].from \in S /\ transitions[j].symbol = a}}

\* The states the epsilon-NFA e can be in after the word w, epsilon moves
\* being allowed before, between and after the symbols; closedSets are the
\* sets closed under its epsilon transitions.
RECURSIVE EnfaAfter(_, _, _)
EnfaAfter(e, w, closedSets) ==
  IF w = <<>> THEN LeastClosed({e.initialState}, closedSets)
  ELSE UNION {LeastClosed(Move({p}, w[Len(w)], e.transitions), closedSets) :
                p \in EnfaAfter(e, SubSeq(w, 1, Len(w) - 1), closedSets)}

\* The epsilon-NFA e accepts the word w.
EnfaAccepts(e, w) ==
  \E closedSets \in {EpsilonClosedSets(e.transitions)} :
    EnfaAfter(e, w, closedSets) \cap Range(e.finalStates) # {}

\* The states the automaton n can be in after the word w when it follows
\* only its own transitions, none of them taken without consuming a symbol.
RECURSIVE NfaAfter(_, _)
NfaAfter(n, w) ==
  IF w = <<>> THEN {n.initialState}
  ELSE UNION {Move({p}, w[Len(w)], n.transitions) :
                p \in NfaAfter(n, SubSeq(w, 1, Len(w) - 1))}

\* The automaton n accepts the word w.
NfaAccepts(n, w) == NfaAfter(n, w) \cap Range(n.finalStates) # {}

\* The words of at most MaxWord symbols over a set of symbols.
Words(symbols) == UNION {[1..n -> symbols] : n \in 0..MaxWord}

----------------------------------------------------------------------------
(* C1 *)

\* C1: for a well-formed input automaton and every word over the
\* epsilon-free alphabet, the returned NFA accepts the word exactly when
\* the input epsilon-NFA accepts it.
C1_LanguageEquivalence ==
  (Done /\ WellFormed(enfa)) =>
    \A w \in Words(Range(AlphabetWithoutEpsilon(enfa.alphabet))) :
      NfaAccepts(nfa, w) <=> EnfaAccepts(enfa, w)

\* A well-formed input with epsilon moves was converted, and some word of
\* two or more symbols is accepted only thanks to epsilon moves.
C1_Witness ==
  /\ Done
  /\ WellFormed(enfa)
  /\ \E w \in Words(Range(AlphabetWithoutEpsilon(enfa.alphabet))) :
       /\ Len(w) >= 2
       /\ EnfaAccepts(enfa, w)
       /\ NfaAccepts(nfa, w)
       /\ ~NfaAccepts(enfa, w)

----------------------------------------------------------------------------
(* C2 *)

\* The targets of the returned transitions from q on a.
OutTargets(q, a) ==
  {nfa.transitions[i].to : i \in {j \in 1..Len(nfa.transitions) :
       nfa.transitions[j].from = q /\ nfa.transitions[j].symbol = a}}

\* The `to` of the input transitions (p, s, a) with p in closures[q].
SteppedFrom(q, a) == Move(Range(closureMap[q]), a, enfa.transitions)

\* C2: for every declared state q and every non-epsilon symbol a of the
\* alphabet, the targets of the returned transitions from q on a are exactly
\* the union of closures[s] over the states s entered on a from closures[q]
\* (so none at all when there is no such s).
C2_ProjectedTargets ==
  Done =>
    \A q \in Range(enfa.states) :
      \A a \in Range(AlphabetWithoutEpsilon(enfa.alphabet)) :
        OutTargets(q, a) = UNION {Range(closureMap[s]) : s \in SteppedFrom(q, a)}

\* A returned conversion in which some pair (q, a) has a target that is
\* reached only by an epsilon move after the symbol, and another pair has
\* no transition at all.
C2_Witness ==
  /\ Done
  /\ \E q \in Range(enfa.states) :
       \E a \in Range(AlphabetWithoutEpsilon(enfa.alphabet)) :
         /\ SteppedFrom(q, a) # {}
         /\ OutTargets(q, a) \ SteppedFrom(q, a) # {}
  /\ \E q \in Range(enfa.states) :
       \E a \in Range(AlphabetWithoutEpsilon(enfa.alphabet)) :
         /\ SteppedFrom(q, a) = {}
         /\ OutTargets(q, a) = {}

----------------------------------------------------------------------------
(* C3 *)

\* C3: every closure stored in the map is the set of states reachable from
\* its state by zero or more epsilon transitions: it contains the state, it
\* is closed under the epsilon transitions, and it lies within every set
\* that contains the state and is closed under them.
C3_ClosureIsEpsilonReach ==
  \A q \in DOMAIN closures :
    LET C == Range(closures[q])
    IN  /\ q \in C
        /\ \A r \in C : \A s \in StateNames :
             EpsilonEdge(enfa.transitions, r, s) => s \in C
        /\ \A D \in SUBSET StateNames :
             (q \in D /\ EpsilonClosed(D, enfa.transitions)) => C \subseteq D

\* A closure of three states found through a chain of two epsilon
\* transitions has been stored, next to a closure that leaves a state out.
C3_Witness ==
  /\ \E q \in DOMAIN closures :
       /\ Len(closures[q]) = 3
       /\ \E r, s \in StateNames :
            /\ r # q /\ s # q /\ r # s
            /\ EpsilonEdge(enfa.transitions, q, r)
            /\ EpsilonEdge(enfa.transitions, r, s)
            /\ ~EpsilonEdge(enfa.transitions, q, s)
  /\ \E q \in DOMAIN closures : Len(closures[q]) < 3

----------------------------------------------------------------------------
(* C4 *)

\* What is left for the work-list loop to do: the states not yet in the
\* closure (each can still be pushed once) and the states still to expand.
LoopVariant == 2 * Cardinality(StateNames \ Range(closure)) + Len(stack)

\* X and Y are the two states of an epsilon cycle X -> Y -> X that no
\* epsilon transition leaves.
TwoStateCycle(X, Y) ==
  /\ X # Y
  /\ EpsilonEdge(enfa.transitions, X, Y)
  /\ EpsilonEdge(enfa.transitions, Y, X)
  /\ EpsilonClosed({X, Y}, enfa.transitions)

\* C4: the work-list loop terminates, epsilon cycles included: every
\* iteration lowers a measure that is never negative, no state is pushed on
\* the work list twice in one closure call, and the two states of an
\* epsilon cycle X -> Y -> X both get the closure {X, Y}.
C4_LoopTerminates ==
  /\ [][ClosureStep => LoopVariant' < LoopVariant]_vars
  /\ [](NoDup(pushed) /\ Range(stack) \subseteq Range(pushed))
  /\ [](\A X, Y \in DOMAIN closures :
          TwoStateCycle(X, Y) =>
            Range(closures[X]) = {X, Y} /\ Range(closures[Y]) = {X, Y})

\* Both closures of a two-state epsilon cycle have been computed.
C4_Witness ==
  \E X, Y \in DOMAIN closures :
    /\ TwoStateCycle(X, Y)
    /\ closures[X] = closures[Y]
    /\ Len(closures[X]) = 2

----------------------------------------------------------------------------
(* C5 *)

\* C5: the returned final states are exactly the declared states whose
\* closure holds an original final state; every original final state that
\* is declared remains final.
C5_FinalStates ==
  Done =>
    /\ Range(nfa.finalStates) =
         {q \in Range(enfa.states) :
            Range(closureMap[q]) \cap Range(enfa.finalStates) # {}}
    /\ Range(enfa.finalStates) \cap Range(enfa.states) \subseteq Range(nfa.finalStates)

\* A conversion returned a final state that was not final in the input,
\* and left another declared state non-final.
C5_Witness ==
  /\ Done
  /\ Range(nfa.finalStates) \ Range(enfa.finalStates) # {}
  /\ Range(enfa.states) \ Range(nfa.finalStates) # {}
  /\ Range(enfa.finalStates) # {}

----------------------------------------------------------------------------
(* C6 *)

NoEpsilonTransitions(e) ==
  \A i \in 1..Len(e.transitions) : ~IsEpsilon(e.transitions[i].symbol)

----------------------------------------------------------------------------
(* C7 *)

\* C7: no step of the call changes the argument, and a second call on the
\* same argument returns what the first call returned (NFA and closure map).
C7_Pure ==
  /\ [][enfa' = enfa]_vars
  /\ []((Done /\ first # <<>>) => result = first)

\* A second call has returned, on an input with epsilon transitions and an
\* epsilon marker in its alphabet, whose result differs from the input.
C7_Witness ==
  /\ Done
  /\ first # <<>>
  /\ ~NoEpsilonTransitions(enfa)
  /\ nfa.alphabet # enfa.alphabet
  /\ nfa.transitions # <<>>
  /\ nfa.finalStates # enfa.finalStates

----------------------------------------------------------------------------
(* C8, C9, C10: input validation *)

\* Nothing of the conversion has been computed and nothing was returned.
NothingComputed ==
  /\ pc = "call"
  /\ DOMAIN closures = {}
  /\ closure = <<>>
  /\ newTransitions = <<>>
  /\ result = <<>>

UnknownInitialState(e) == e.initialState \notin Range(e.states)

UnknownFinalState(e) == ~(Range(e.finalStates) \subseteq Range(e.states))

DanglingTransitionEndpoint(e) ==
  \E i \in 1..Len(e.transitions) :
    e.transitions[i].from \notin Range(e.states)
      \/ e.transitions[i].to \notin Range(e.states)

UndeclaredSymbol(e) ==
  \E i \in 1..Len(e.transitions) :
    /\ ~IsEpsilon(e.transitions[i].symbol)
    /\ e.transitions[i].symbol \notin Range(e.alphabet)

\* C8: with an initial state or a final state that is not declared, the
\* conversion fails before any closure or projection work begins and
\* returns no NFA.
C8_RejectsUnknownInitialOrFinal ==
  (UnknownInitialState(enfa) \/ UnknownFinalState(enfa)) => NothingComputed

\* C9: with a transition whose from or to is not declared, epsilon-labeled
\* or not, the conversion is rejected before any closure or projected
\* transition is computed: it neither returns a result nor fails part-way.
C9_RejectsDanglingEndpoint ==
  DanglingTransitionEndpoint(enfa) => NothingComputed

\* C10: with a non-epsilon transition whose symbol is not in the alphabet,
\* no result is ever returned (the transition is not silently ignored).
C10_RejectsUndeclaredSymbol ==
  UndeclaredSymbol(enfa) => ~Done

----------------------------------------------------------------------------
(* C11 *)

\* The positions of the input alphabet that hold no epsilon marker.
KeptPositions == {i \in 1..Len(enfa.alphabet) : ~IsEpsilon(enfa.alphabet[i])}

\* C11: the returned NFA is epsilon-free: its alphabet holds neither "" nor
\* "ε", it is the input alphabet with exactly the epsilon markers left out
\* (the k-th symbol kept is the k-th symbol of the output), no returned
\* transition is labelled "" or "ε", and every returned transition is
\* labelled with a symbol of the returned alphabet.
C11_EpsilonFree ==
  Done =>
    /\ \A k \in 1..Len(nfa.alphabet) : ~IsEpsilon(nfa.alphabet[k])
    /\ Len(nfa.alphabet) = Cardinality(KeptPositions)
    /\ \A i \in KeptPositions :
         nfa.alphabet[Cardinality({j \in KeptPositions : j <= i})] = enfa.alphabet[i]
    /\ \A t \in 1..Len(nfa.transitions) :
         /\ ~IsEpsilon(nfa.transitions[t].symbol)
         /\ nfa.transitions[t].symbol \in Range(nfa.alphabet)

\* An automaton with an epsilon marker in its alphabet and with epsilon
\* transitions was converted: two symbols were kept in their order and
\* transitions on both of them were returned.
C11_Witness ==
  /\ Done
  /\ Len(enfa.alphabet) = 3
  /\ \E i \in 1..Len(enfa.alphabet) : IsEpsilon(enfa.alphabet[i])
  /\ ~NoEpsilonTransitions(enfa)
  /\ Len(nfa.alphabet) = 2
  /\ \A k \in 1..2 : \E t \in 1..Len(nfa.transitions) :
       nfa.transitions[t].symbol = nfa.alphabet[k]

----------------------------------------------------------------------------
(* C12 *)

\* C12: the projected transitions never hold the same (from, to, symbol)
\* triple twice, whatever the input lists twice; and converting an automaton
\* with one of its transitions listed once more returns the same set of
\* transitions, the same closure map and the same final states as before.
C12_NoDuplicateTransitions ==
  /\ NoDup(newTransitions)
  /\ Done => NoDup(nfa.transitions)
  /\ (Done /\ first # <<>>) =>
       /\ Range(nfa.transitions) = Range(first[1].nfa.transitions)
       /\ closureMap = first[1].closures
       /\ nfa.finalStates = first[1].nfa.finalStates

\* An automaton with unique states and symbols, epsilon transitions and a
\* transition listed twice has been converted after the same automaton
\* without the repetition, and transitions were returned.
C12_Witness ==
  /\ Done
  /\ first # <<>>
  /\ NoDup(enfa.states)
  /\ NoDup(enfa.alphabet)
  /\ ~NoDup(enfa.transitions)
  /\ ~NoEpsilonTransitions(enfa)
  /\ Len(nfa.transitions) >= 2

----------------------------------------------------------------------------
(* C13 *)

\* The state q has no outgoing epsilon transition.
NoEpsilonOut(q) == \A s \in StateNames : ~EpsilonEdge(enfa.transitions, q, s)

\* C13: computeAllEpsilonClosures builds a total map over the declared
\* states: while it runs the keys are the states already closed, once it
\* has returned the keys are exactly the declared states (also in the
\* returned result), and a state without outgoing epsilon transition maps
\* to the list holding only itself.
C13_TotalClosureMap ==
  /\ pc = "call" => DOMAIN closures = {}
  /\ pc = "closures" => DOMAIN closures = {enfa.states[i] : i \in 1..(si - 1)}
  /\ pc \in {"project", "return", "done", "threw"} =>
       DOMAIN closures = Range(enfa.states)
  /\ Done => DOMAIN closureMap = Range(enfa.states)
  /\ \A q \in DOMAIN closures : NoEpsilonOut(q) => closures[q] = <<q>>

\* A map over three declared states has been returned: one state without
\* outgoing epsilon transition maps to itself alone, another state has a
\* larger closure.
C13_Witness ==
  /\ Done
  /\ Cardinality(DOMAIN closureMap) = 3
  /\ \E q \in DOMAIN closureMap : NoEpsilonOut(q) /\ closureMap[q] = <<q>>
  /\ \E q \in DOMAIN closureMap : ~NoEpsilonOut(q) /\ Len(closureMap[q]) > 1

----------------------------------------------------------------------------
(* C14 *)

\* C14: the returned NFA has the states of the input, in the same order,
\* and the initial state of the input.
C14_StatesAndInitialKept ==
  Done =>
    /\ nfa.states = enfa.states
    /\ nfa.initialState = enfa.initialState

\* An automaton whose states are not listed in sorted order and whose
\* initial state is not the first one was converted, and its alphabet,
\* transitions and final states were all replaced.
C14_Witness ==
  /\ Done
  /\ Len(enfa.states) >= 2
  /\ StrLess(enfa.states[2], enfa.states[1])
  /\ enfa.initialState = enfa.states[2]
  /\ nfa.alphabet # enfa.alphabet
  /\ nfa.transitions # enfa.transitions
  /\ nfa.finalStates # enfa.finalStates

----------------------------------------------------------------------------
(* C15 *)

\* The transitions from q on a to each state of `targets`.
Fan(q, a, targets) == {Transition(q, t, a) : t \in targets}

\* C15: converting the worked example (the editor's initial automaton)
\* returns the closures A -> A,B,C; B -> B,C; C -> C, exactly the
\* transitions A-0->{A,B,C}, A-1->{B,C}, B-0->{C}, B-1->{B,C}, C-0->{C}
\* (none from C on 1, none listed twice), and the final states A, B, C.
C15_WorkedExample ==
  (Done /\ enfa = INITIAL_ENFA) =>
    /\ DOMAIN closureMap = {"A", "B", "C"}
    /\ closureMap["A"] = <<"A", "B", "C">>
    /\ closureMap["B"] = <<"B", "C">>
    /\ closureMap["C"] = <<"C">>
    /\ Range(nfa.transitions) =
         Fan("A", "0", {"A", "B", "C"}) \cup Fan("A", "1", {"B", "C"})
           \cup Fan("B", "0", {"C"}) \cup Fan("B", "1", {"B", "C"})
           \cup Fan("C", "0", {"C"})
    /\ Len(nfa.transitions) = 9
    /\ \A i \in 1..Len(nfa.transitions) :
         ~(nfa.transitions[i].from = "C" /\ nfa.transitions[i].symbol = "1")
    /\ Range(nfa.finalStates) = {"A", "B", "C"}

\* The conversion of the worked example has returned.
C15_Witness ==
  /\ Done
  /\ enfa = INITIAL_ENFA
  /\ enfa.initialState = "A"
  /\ Len(enfa.transitions) = 5
  /\ nfa.alphabet = <<"0", "1">>

----------------------------------------------------------------------------
(* C16 *)

\* The epsilon edges of a set of transitions, as (from, to) pairs.
EpsilonEdgeSet(T) == {<<t.from, t.to>> : t \in {x \in T : IsEpsilon(x.symbol)}}

\* The states reachable from the states of S along the edges E.
RECURSIVE ReachSet(_, _)
ReachSet(S, E) ==
  LET grown == S \cup {e[2] : e \in {x \in E : x[1] \in S}}
  IN  IF grown = S THEN S ELSE ReachSet(grown, E)

\* The one ascending list of the members of a set of state names.
RECURSIVE Ascending(_)
Ascending(S) ==
  IF S = {} THEN <<>>
  ELSE LET least == CHOOSE x \in S : \A y \in S : ~StrLess(y, x)
       IN  <<least>> \o Ascending(S \ {least})

\* C16: every closure returned by computeStateEpsilonClosure is strictly
\* ascending (sorted, nothing repeated), and it is the ascending list of the
\* states reachable from the start state in the set of transitions: a value
\* fixed by the start state and the set of transitions alone, whatever the
\* order of the transition list and the order of discovery.
C16_SortedAndOrderIndependent ==
  \A q \in DOMAIN closures :
    /\ \A i \in 1..(Len(closures[q]) - 1) : StrLess(closures[q][i], closures[q][i + 1])
    /\ closures[q] = Ascending(ReachSet({q}, EpsilonEdgeSet(Range(enfa.transitions))))

\* A stored closure of two or more states does not begin with its start
\* state, which was the first state in the set: the sort has reordered the
\* states discovered.
C16_Witness ==
  \E q \in DOMAIN closures :
    /\ Len(closures[q]) >= 2
    /\ closures[q][1] # q

----------------------------------------------------------------------------
(* C17 *)

\* The projection has begun (it may have ended, by return or by throwing).
Projecting == pc \in {"project", "return", "done", "threw"}

\* C17: the closure of every declared state is in the map before the first
\* projected transition is produced; a projected transition is produced
\* only by a projection step that finds the map complete; once the
\* projection has begun the map is never changed, and it is the map that
\* is returned: every closure looked up during projection is the final one.
C17_ClosuresBeforeProjection ==
  /\ []((Projecting \/ newTransitions # <<>>) =>
          Range(enfa.states) \subseteq DOMAIN closures)
  /\ [][newTransitions' # newTransitions =>
          (pc = "project" /\ Range(enfa.states) \subseteq DOMAIN closures)]_vars
  /\ [][Projecting => (Projecting' /\ closures' = closures)]_vars
  /\ [](Done => closureMap = closures)

\* The projection is under way for the second or a later state of three,
\* with transitions already produced and a closure of several states in
\* the map.
C17_Witness ==
  /\ pc = "project"
  /\ qi >= 2
  /\ newTransitions # <<>>
  /\ Cardinality(DOMAIN closures) = 3
  /\ \E q \in DOMAIN closures : Len(closures[q]) >= 2

----------------------------------------------------------------------------
(* C18, C19: the automaton kept by the editor *)

\* C18: whenever the automaton of the editor has a state, its initial state
\* is one of its states (also right after the initial state was removed).
C18_InitialStateDeclared ==
  Len(enfa.states) > 0 => enfa.initialState \in Range(enfa.states)

\* C19: the automaton of the editor keeps its final states among its
\* states, the endpoints of its transitions among its states, the symbol of
\* every non-epsilon transition in its alphabet, and "ε" in its alphabet.
C19_EditorKeepsWellFormed ==
  /\ ~UnknownFinalState(enfa)
  /\ ~DanglingTransitionEndpoint(enfa)
  /\ ~UndeclaredSymbol(enfa)
  /\ "ε" \in Range(enfa.alphabet)

====
